---------------------------- MODULE Spec2Model ----------------------------
(***************************************************************************)
(* Order lifecycle and access control of the kaavyar backend               *)
(* (app/api/orders.py, app/api/auth.py, app/api/admin.py,                  *)
(* app/core/security.py).  The document store is modelled as two           *)
(* collections users, orders and products; a document's _id is its         *)
(* position in the collection.  A request handled to completion is one     *)
(* action; it leaves the endpoint's name and its HTTP response in resp.    *)
(* A handler's response and its write to the store are given by a result   *)
(* operator of the request's inputs, which the action applies.  Where      *)
(* requests are handled concurrently a handler is one action per store     *)
(* call, and inflight holds the requests suspended between two calls.      *)
(* tokens holds the bearer tokens login has issued.                        *)
(*                                                                         *)
(* Optional values (Python None) are sequences of length at most one:      *)
(* <<>> is None and <<x>> is the value x.  Strings that are case-folded    *)
(* are sequences of characters.                                            *)
(***************************************************************************)
EXTENDS Integers, Sequences, FiniteSets, TLC

VARIABLES users, orders, products, tokens, inflight, now, resp

vars == <<users, orders, products, tokens, inflight, now, resp>>

(***************************************************************************)
(* Bounds of the model.                                                    *)
(***************************************************************************)
MaxUsers == 2
MaxOrders == 1
MaxTime == 1
MaxRequests == 2
MaxProducts == 2
MaxSalts == 2
MaxTokens == 2
MaxAddresses == 2
TicksPerSecond == 2
TokenLifetime == 2
MaxClock == (TokenLifetime + 2) * TicksPerSecond - 1

(***************************************************************************)
(* Program constants.                                                      *)
(***************************************************************************)
ExpressCost == 3000
FreeShippingThreshold == 50000
StandardCost == 1500

OrderStatus == {"pending", "confirmed", "processing", "shipped", "delivered", "cancelled"}
PaymentStatus == {"pending", "paid", "failed", "refunded"}
PaymentMethod == {"card", "cod", "bank"}

None == <<>>
Some(x) == <<x>>
Optional(S) == {None} \cup {Some(x) : x \in S}

(***************************************************************************)
(* str.lower() on the characters the model's strings are made of.          *)
(***************************************************************************)
LowerChar(c) ==
    CASE c = "A" -> "a"
      [] c = "B" -> "b"
      [] OTHER -> c
Lower(s) == [i \in DOMAIN s |-> LowerChar(s[i])]

(***************************************************************************)
(* security.py get_password_hash and verify_password: passlib's bcrypt.    *)
(* A hash embeds the salt it was made with, and bcrypt reads the first     *)
(* BcryptMaxBytes bytes of the password; the digest is written as the      *)
(* pair of the two.  verify_password hashes the plain password with the    *)
(* hash's salt and compares.                                               *)
(***************************************************************************)
BcryptMaxBytes == 72

Truncate(password) ==
    SubSeq(password, 1, IF Len(password) < BcryptMaxBytes THEN Len(password)
                        ELSE BcryptMaxBytes)

get_password_hash(password, salt) ==
    [salt |-> salt, digest |-> <<salt, Truncate(password)>>]

verify_password(plain_password, hashed_password) ==
    get_password_hash(plain_password, hashed_password.salt) = hashed_password

Salts == 1..MaxSalts
OneSalt == {1}

AdminEmail == <<"r", "x">>
AdminPassword == <<"A", "d">>
OnePassword == {<<"p">>}

\* Passwords of one byte, and two of BcryptMaxBytes + 1 bytes that differ in
\* their last byte only.
LongPassword(c) == [i \in 1..BcryptMaxBytes |-> "a"] \o <<c>>
Passwords == {<<"p">>, <<"q">>, LongPassword("b"), LongPassword("c")}
RegisterEmails == {<<"a", "x">>, <<"A", "x">>, <<"b", "x">>}
OrderEmails == {<<"a", "x">>, <<"A", "x">>}
TrackEmails == {<<"a", "x">>, <<"A", "x">>, <<"b", "x">>}

(***************************************************************************)
(* Line items: unit price and quantity (the other item fields are opaque   *)
(* snapshot data and are carried as the product reference).                *)
(***************************************************************************)
Item(p, price, quantity) == [product_id |-> p, price |-> price, quantity |-> quantity]
ItemLists ==
    { <<>>,
      <<Item("p1", 49999, 1)>>,
      <<Item("p1", 25000, 1), Item("p2", 12500, 2)>>,
      <<Item("p2", 100000, 1)>> }
ShippingMethods == {"standard", "express"}
NoteTexts == {"n1"}
TrackingNumbers == {"t1"}

(***************************************************************************)
(* generate_order_number(): "AJR-<date>-<six random characters>"; the      *)
(* random part is drawn from as many values as orders can be stored        *)
(* (OrderNumbers), or from one more, so that a number stays free when the  *)
(* store is full (GeneratedNumbers).                                       *)
(***************************************************************************)
OrderNumber(r) == <<"AJR", r>>
OrderNumbers == {OrderNumber(r) : r \in 1..MaxOrders}
GeneratedNumbers == {OrderNumber(r) : r \in 1..(MaxOrders + 1)}

(***************************************************************************)
(* Bearer tokens as a request presents them: none, one that does not       *)
(* verify (bad signature, malformed), or a signed token whose subject is a *)
(* user id.  login issues tokens for stored users only and no endpoint     *)
(* deletes a user; Tok(MaxUsers + 1) is a signed token whose subject is in *)
(* no stored user's _id, the case of get_current_user's last check.        *)
(***************************************************************************)
NoToken == <<"none">>
BadToken == <<"bad">>

(***************************************************************************)
(* The clock counts ticks, TicksPerSecond to the second.  A token's exp    *)
(* claim is in whole seconds: jwt.encode converts the datetime with        *)
(* timegm(utctimetuple()), and jwt.decode raises ExpiredSignatureError (a  *)
(* JWTError) when exp is less than the current time in whole seconds.      *)
(* A signed token is written as its payload.                               *)
(***************************************************************************)
Seconds(t) == t \div TicksPerSecond

Jwt(sub, exp) == <<"tok", sub, exp>>

\* Faulty variant: the lifetime is added twice.
create_access_token_twice(sub, expires_delta) ==
    Jwt(sub, Seconds(now + expires_delta + expires_delta))

create_access_token(sub, expires_delta) == Jwt(sub, Seconds(now + expires_delta))

\* Faulty variant: a token is rejected from the first tick of the second of
\* its exp claim.
jwt_decode_before_exp(tok) ==
    IF tok = BadToken THEN None
    ELSE IF tok[3] <= Seconds(now) THEN None
    ELSE Some(tok[2])

jwt_decode(tok) ==
    IF tok = BadToken THEN None
    ELSE IF tok[3] < Seconds(now) THEN None
    ELSE Some(tok[2])

\* A token of subject sub that outlives the clock of the model.
Tok(sub) == Jwt(sub, Seconds(MaxClock) + 1)

\* tokens holds, for each token login has issued, the token as the client
\* received it, the time of issue and the user that logged in.
Tokens ==
    {NoToken, BadToken, Tok(MaxUsers + 1)} \cup {Tok(u) : u \in 1..Len(users)}
        \cup {t.access_token : t \in tokens}

(***************************************************************************)
(* Path parameters: a 24-digit hex string that ObjectId() accepts, written *)
(* Hex(k) for the string of object id k, or any other string.              *)
(***************************************************************************)
Hex(k) == <<"hex", k>>
Str(s) == <<"str", s>>
IsObjectId(p) == p[1] = "hex"
ObjectIdParams == {Hex(k) : k \in 1..(MaxOrders + 1)} \cup {Str(<<"zz">>)}
CustomerIdParams == {Hex(k) : k \in 1..MaxUsers} \cup {Str(<<"zz">>)}
OrderIdParams == ObjectIdParams \cup {Str(n) : n \in OrderNumbers}

Ok(code, body) == [code |-> code, detail |-> "", body |-> Some(body)]
Err(code, detail) == [code |-> code, detail |-> detail, body |-> None]

(***************************************************************************)
(* security.py: the dependency chain that resolves the caller.             *)
(* A caller is None or the _id of a stored user.                           *)
(***************************************************************************)
CredentialsException == Err(401, "Could not validate credentials")

get_current_user(tok) ==
    IF tok = NoToken THEN Ok(200, None)
    ELSE IF jwt_decode(tok) = None THEN CredentialsException
    ELSE IF jwt_decode(tok)[1] \notin 1..Len(users) THEN CredentialsException
    ELSE Ok(200, jwt_decode(tok))

\* Faulty variant: the subject of a signed token is taken without verifying it.
get_current_user_optional_unverified(tok) ==
    IF tok[1] = "tok" THEN Some(tok[2]) ELSE None

get_current_user_optional(tok) ==
    IF tok = NoToken THEN None
    ELSE LET r == get_current_user(tok)
         IN IF r.code = 200 THEN r.body[1] ELSE None

\* Faulty variant: the active flag of the stored user is not looked at.
get_current_active_user_unchecked(tok) ==
    LET r == get_current_user(tok)
    IN IF r.code # 200 THEN r
       ELSE IF r.body[1] = None THEN Err(401, "Not authenticated")
       ELSE Ok(200, r.body[1][1])

get_current_active_user(tok) ==
    LET r == get_current_user(tok)
    IN IF r.code # 200 THEN r
       ELSE IF r.body[1] = None THEN Err(401, "Not authenticated")
       ELSE IF ~users[r.body[1][1]].is_active THEN Err(400, "Inactive user")
       ELSE Ok(200, r.body[1][1])

\* Faulty variant: the admin flag is tested before the active flag.
get_admin_user_flag_first(tok) ==
    LET r == get_current_user(tok)
    IN IF r.code # 200 THEN r
       ELSE IF r.body[1] = None THEN Err(401, "Not authenticated")
       ELSE IF ~users[r.body[1][1]].is_admin THEN Err(403, "Not enough permissions")
       ELSE IF ~users[r.body[1][1]].is_active THEN Err(400, "Inactive user")
       ELSE Ok(200, r.body[1][1])

get_admin_user(tok) ==
    LET r == get_current_active_user(tok)
    IN IF r.code # 200 THEN r
       ELSE IF ~users[r.body[1]].is_admin THEN Err(403, "Not enough permissions")
       ELSE r

Idle == [op |-> "none"]
Requests == 1..MaxRequests
Response(op, res) == [op |-> op, res |-> res]
Answer(op, req, res) == [op |-> op, req |-> req, res |-> res]

Init ==
    /\ users = <<>>
    /\ orders = <<>>
    /\ products = <<>>
    /\ tokens = {}
    /\ inflight = [r \in Requests |-> Idle]
    /\ now = 0
    /\ resp = Idle

(***************************************************************************)
(* The clock that datetime.utcnow() reads.                                 *)
(***************************************************************************)
Advance(limit) ==
    /\ now < limit
    /\ now' = now + 1
    /\ resp' = Idle
    /\ UNCHANGED <<users, orders, products, tokens, inflight>>

Tick == Advance(MaxTime)

(***************************************************************************)
(* auth.py register, admin.py seed_admin_user and toggle_customer_status.  *)
(***************************************************************************)
UserIds == 1..Len(users)

EmailTaken(e) == \E u \in UserIds : users[u].email = e

UserCreate(emails, passwords) ==
    [email : emails, first_name : {"F"}, last_name : {"L"}, phone : {None},
     password : passwords]

\* The document register and seed_admin_user insert.  created_at and
\* updated_at of a user are left out: no handler reads them.
UserDoc(email, first_name, last_name, phone, hashed_password, is_admin) ==
    [ email |-> email,
      first_name |-> first_name,
      last_name |-> last_name,
      phone |-> phone,
      hashed_password |-> hashed_password,
      is_active |-> TRUE,
      is_admin |-> is_admin,
      addresses |-> <<>>,
      wishlist |-> <<>> ]

UserResponse(id, user) ==
    [id |-> id, email |-> user.email, first_name |-> user.first_name,
     last_name |-> user.last_name, phone |-> user.phone,
     is_active |-> user.is_active, is_admin |-> user.is_admin,
     addresses |-> user.addresses, wishlist |-> user.wishlist]

register(user_datas, salts) ==
    \E user_data \in user_datas :
        /\ IF EmailTaken(Lower(user_data.email))
           THEN /\ resp' = Answer("register", user_data,
                                  Err(400, "Email already registered"))
                /\ UNCHANGED users
           ELSE \E salt \in salts :
                    LET user_doc == UserDoc(Lower(user_data.email), user_data.first_name,
                                            user_data.last_name, user_data.phone,
                                            get_password_hash(user_data.password, salt),
                                            FALSE)
                    IN /\ Len(users) < MaxUsers
                       /\ users' = Append(users, user_doc)
                       /\ resp' = Answer("register", user_data,
                                         Ok(201, UserResponse(Len(users) + 1, user_doc)))
        /\ UNCHANGED <<orders, now, products, tokens, inflight>>

seed_admin_user(salts) ==
    /\ IF EmailTaken(AdminEmail)
       THEN /\ resp' = Response("seed_admin", Ok(200, "Admin user already exists"))
            /\ UNCHANGED users
       ELSE \E salt \in salts :
                /\ Len(users) < MaxUsers
                /\ users' = Append(users, UserDoc(AdminEmail, "Admin", "Kavyaar",
                                                  Some("+92 300 0000000"),
                                                  get_password_hash(AdminPassword, salt),
                                                  TRUE))
                /\ resp' = Response("seed_admin",
                                    Ok(200, "Admin user created successfully"))
    /\ UNCHANGED <<orders, now, products, tokens, inflight>>

toggle_customer_status ==
    \E tok \in Tokens :
        LET auth == get_admin_user(tok)
        IN /\ IF auth.code # 200
              THEN /\ resp' = Response("toggle_customer_status", auth)
                   /\ UNCHANGED users
              ELSE \E customer_id \in CustomerIdParams, is_active \in BOOLEAN :
                       IF ~IsObjectId(customer_id)
                       THEN /\ resp' = Response("toggle_customer_status",
                                                Err(400, "Invalid customer ID"))
                            /\ UNCHANGED users
                       ELSE IF customer_id[2] \notin UserIds
                       THEN /\ resp' = Response("toggle_customer_status",
                                                Err(404, "Customer not found"))
                            /\ UNCHANGED users
                       ELSE /\ users' = [users EXCEPT ![customer_id[2]].is_active = is_active]
                            /\ resp' = Response("toggle_customer_status",
                                                Ok(200, is_active))
           /\ UNCHANGED <<orders, now, products, tokens, inflight>>

(***************************************************************************)
(* auth.py login and get_current_user_info (GET /auth/me).  The lifetime   *)
(* of a token is settings.ACCESS_TOKEN_EXPIRE_MINUTES, read from the       *)
(* environment; the model runs the clock over a lifetime of TokenLifetime  *)
(* seconds.                                                                *)
(***************************************************************************)
FindUserByEmail(email) ==
    LET hits == {u \in UserIds : users[u].email = email}
    IN IF hits = {} THEN None ELSE Some(CHOOSE u \in hits : TRUE)

\* Faulty variant: the active flag is tested before the password.
login_result_active_first(username, password) ==
    LET found == FindUserByEmail(Lower(username))
    IN IF found = None THEN Err(401, "Incorrect email or password")
       ELSE IF ~users[found[1]].is_active THEN Err(400, "Account is disabled")
       ELSE IF ~verify_password(password, users[found[1]].hashed_password)
            THEN Err(401, "Incorrect email or password")
       ELSE Ok(200, [access_token |->
                        create_access_token(found[1], TokenLifetime * TicksPerSecond),
                     token_type |-> "bearer"])

login_result(username, password) ==
    LET found == FindUserByEmail(Lower(username))
    IN IF found = None THEN Err(401, "Incorrect email or password")
       ELSE IF ~verify_password(password, users[found[1]].hashed_password)
            THEN Err(401, "Incorrect email or password")
       ELSE IF ~users[found[1]].is_active THEN Err(400, "Account is disabled")
       ELSE Ok(200, [access_token |->
                        create_access_token(found[1], TokenLifetime * TicksPerSecond),
                     token_type |-> "bearer"])

login(usernames, passwords) ==
    \E username \in usernames, password \in passwords :
        LET res == login_result(username, password)
        IN /\ resp' = Answer("login", [username |-> username, password |-> password], res)
           /\ IF res.code = 200
              THEN LET issued == [access_token |-> res.body[1].access_token,
                                  issued_at |-> now,
                                  sub |-> FindUserByEmail(Lower(username))[1]]
                   IN /\ Cardinality(tokens \cup {issued}) <= MaxTokens
                      /\ tokens' = tokens \cup {issued}
              ELSE UNCHANGED tokens
           /\ UNCHANGED <<users, orders, products, inflight, now>>

get_current_user_info ==
    \E tok \in Tokens :
        LET auth == get_current_active_user(tok)
        IN /\ resp' = Answer("get_current_user_info", [tok |-> tok],
                             IF auth.code # 200 THEN auth
                             ELSE Ok(200, UserResponse(auth.body[1], users[auth.body[1]])))
           /\ UNCHANGED <<users, orders, products, tokens, inflight, now>>

(***************************************************************************)
(* orders.py create_order.                                                 *)
(***************************************************************************)
RECURSIVE SumItems(_, _)
SumItems(items, i) ==
    IF i > Len(items) THEN 0
    ELSE items[i].price * items[i].quantity + SumItems(items, i + 1)

\* Faulty variant: the subtotal adds the unit prices and forgets the quantities.
RECURSIVE SumPrices(_, _)
SumPrices(items, i) ==
    IF i > Len(items) THEN 0 ELSE items[i].price + SumPrices(items, i + 1)

SubtotalOfPrices(items) == SumPrices(items, 1)

Subtotal(items) == SumItems(items, 1)

\* Faulty variant: the free-shipping threshold is tested before the express method.
ShippingCostFreeFirst(subtotal, shipping_method) ==
    IF subtotal >= FreeShippingThreshold THEN 0
    ELSE IF shipping_method = "express" THEN ExpressCost
    ELSE StandardCost

ShippingCost(subtotal, shipping_method) ==
    IF shipping_method = "express" THEN ExpressCost
    ELSE IF subtotal >= FreeShippingThreshold THEN 0
    ELSE StandardCost

InitialPaymentStatus(payment_method) ==
    IF payment_method = "card" THEN "paid" ELSE "pending"

\* Faulty variant: a card order is left pending.
InitialStatusPending(payment_method) == "pending"

InitialStatus(payment_method) ==
    IF payment_method = "card" THEN "confirmed" ELSE "pending"

OrderDoc(number, caller, data) ==
    LET subtotal == Subtotal(data.items)
        shipping_cost == ShippingCost(subtotal, data.shipping_method)
    IN [ order_number |-> number,
         user_id |-> caller,
         items |-> data.items,
         shipping_address |-> data.shipping_address,
         email |-> data.email,
         subtotal |-> subtotal,
         shipping_cost |-> shipping_cost,
         total |-> subtotal + shipping_cost,
         payment_method |-> data.payment_method,
         payment_status |-> InitialPaymentStatus(data.payment_method),
         shipping_method |-> data.shipping_method,
         status |-> InitialStatus(data.payment_method),
         tracking_number |-> None,
         notes |-> data.notes,
         created_at |-> now,
         updated_at |-> now ]

serialize_order(id, order) ==
    [ id |-> id,
      order_number |-> order.order_number,
      items |-> order.items,
      shipping_address |-> order.shipping_address,
      email |-> order.email,
      subtotal |-> order.subtotal,
      shipping_cost |-> order.shipping_cost,
      total |-> order.total,
      payment_method |-> order.payment_method,
      payment_status |-> order.payment_status,
      shipping_method |-> order.shipping_method,
      status |-> order.status,
      tracking_number |-> order.tracking_number,
      created_at |-> order.created_at ]

OrderIds == 1..Len(orders)

(***************************************************************************)
(* find_one on the orders collection: by _id, by order_number (unique      *)
(* index), and by the (order_number, email) pair.  The result is None or   *)
(* the _id of the document found.                                          *)
(***************************************************************************)
FindById(k) == IF k \in OrderIds THEN Some(k) ELSE None

FindByNumber(n) ==
    LET hits == {k \in OrderIds : orders[k].order_number = n}
    IN IF hits = {} THEN None ELSE Some(CHOOSE k \in hits : TRUE)

FindByNumberAndEmail(n, e) ==
    LET hits == {k \in OrderIds : orders[k].order_number = n /\ orders[k].email = e}
    IN IF hits = {} THEN None ELSE Some(CHOOSE k \in hits : TRUE)

(***************************************************************************)
(* The OrderCreate bodies a checkout can send.  AllCheckouts varies every  *)
(* field; FewCheckouts is one card and one cash-on-delivery checkout.      *)
(***************************************************************************)
AllCheckouts ==
    [ items : ItemLists,
      shipping_address : {"addr1"},
      email : OrderEmails,
      payment_method : PaymentMethod,
      shipping_method : ShippingMethods,
      notes : Optional(NoteTexts) ]

FewCheckouts ==
    { c \in AllCheckouts :
        /\ c.items = <<Item("p1", 49999, 1)>>
        /\ c.email = <<"a", "x">>
        /\ c.payment_method \in {"card", "cod"}
        /\ c.shipping_method = "standard"
        /\ c.notes = None }

OneCheckout == { c \in FewCheckouts : c.payment_method = "cod" }

SomeCheckouts ==
    { c \in AllCheckouts :
        /\ \/ c.items = <<Item("p1", 25000, 1), Item("p2", 12500, 2)>>
              /\ c.shipping_method = "standard" /\ c.payment_method = "cod"
           \/ c.items = <<Item("p2", 100000, 1)>> /\ c.shipping_method = "express"
              /\ c.payment_method = "card"
        /\ c.email = <<"A", "x">>
        /\ c.notes = None }

create_order(checkouts, numbers) ==
    \E tok \in Tokens, number \in numbers, data \in checkouts :
        LET caller == get_current_user_optional(tok)
            doc == OrderDoc(number, caller, data)
            req == [data |-> data, tok |-> tok]
        IN /\ IF FindByNumber(number) # None
              THEN /\ resp' = Answer("create_order", req, Err(500, "DuplicateKeyError"))
                   /\ UNCHANGED orders
              ELSE /\ Len(orders) < MaxOrders
                   /\ orders' = Append(orders, doc)
                   /\ resp' = Answer("create_order", req,
                                     Ok(201, serialize_order(Len(orders) + 1, doc)))
           /\ UNCHANGED <<users, now, products, tokens, inflight>>

(***************************************************************************)
(* orders.py get_user_orders: the caller's orders, newest first, one page. *)
(* The order in which the store returns orders of equal created_at is not  *)
(* determined.                                                             *)
(***************************************************************************)
Pages == {1, 2}
PageSizes == {1}

OrdersOf(u) == { k \in OrderIds : orders[k].user_id = Some(u) }

NewestFirst(ks) ==
    { f \in [1..Cardinality(ks) -> ks] :
        /\ \A i, j \in DOMAIN f : i # j => f[i] # f[j]
        /\ \A i, j \in DOMAIN f :
              i < j => orders[f[i]].created_at >= orders[f[j]].created_at }

Page(list, page, page_size) ==
    LET skip == (page - 1) * page_size
        last == IF skip + page_size < Len(list) THEN skip + page_size ELSE Len(list)
    IN SubSeq(list, skip + 1, last)

get_user_orders ==
    \E tok \in Tokens, page \in Pages, page_size \in PageSizes :
        LET auth == get_current_active_user(tok)
            req == [tok |-> tok, page |-> page, page_size |-> page_size]
        IN /\ IF auth.code # 200
              THEN resp' = Answer("get_user_orders", req, auth)
              ELSE \E sorted \in NewestFirst(OrdersOf(auth.body[1])) :
                       LET listed == Page(sorted, page, page_size)
                       IN resp' = Answer("get_user_orders", req,
                              Ok(200, [orders |-> [i \in DOMAIN listed |->
                                          serialize_order(listed[i], orders[listed[i]])],
                                       total |-> Cardinality(OrdersOf(auth.body[1])),
                                       page |-> page,
                                       page_size |-> page_size]))
           /\ UNCHANGED <<users, orders, products, tokens, inflight, now>>

(***************************************************************************)
(* orders.py get_order and track_order.                                    *)
(***************************************************************************)
\* Faulty variant: an admin is held to the ownership check.
get_order_result_no_admin(order_id, tok) ==
    LET caller == get_current_user_optional(tok)
        found == IF IsObjectId(order_id) THEN FindById(order_id[2])
                 ELSE FindByNumber(order_id[2])
    IN IF found = None THEN Err(404, "Order not found")
       ELSE LET order == orders[found[1]]
            IN IF /\ caller # None
                  /\ order.user_id # None
                  /\ order.user_id # caller
               THEN Err(403, "Not authorized to view this order")
               ELSE Ok(200, serialize_order(found[1], order))

\* Faulty variant: a guest order is treated as someone else's.
get_order_result_owned_only(order_id, tok) ==
    LET caller == get_current_user_optional(tok)
        found == IF IsObjectId(order_id) THEN FindById(order_id[2])
                 ELSE FindByNumber(order_id[2])
    IN IF found = None THEN Err(404, "Order not found")
       ELSE LET order == orders[found[1]]
            IN IF /\ caller # None
                  /\ order.user_id # caller
                  /\ ~users[caller[1]].is_admin
               THEN Err(403, "Not authorized to view this order")
               ELSE Ok(200, serialize_order(found[1], order))

\* Faulty variant: a caller who resolves to no user is refused an owned order.
get_order_result_owner_only(order_id, tok) ==
    LET caller == get_current_user_optional(tok)
        found == IF IsObjectId(order_id) THEN FindById(order_id[2])
                 ELSE FindByNumber(order_id[2])
    IN IF found = None THEN Err(404, "Order not found")
       ELSE LET order == orders[found[1]]
            IN IF /\ order.user_id # None
                  /\ \/ caller = None
                     \/ /\ order.user_id # caller
                        /\ ~users[caller[1]].is_admin
               THEN Err(403, "Not authorized to view this order")
               ELSE Ok(200, serialize_order(found[1], order))

get_order_result(order_id, tok) ==
    LET caller == get_current_user_optional(tok)
        found == IF IsObjectId(order_id) THEN FindById(order_id[2])
                 ELSE FindByNumber(order_id[2])
    IN IF found = None THEN Err(404, "Order not found")
       ELSE LET order == orders[found[1]]
            IN IF /\ caller # None
                  /\ order.user_id # None
                  /\ order.user_id # caller
                  /\ ~users[caller[1]].is_admin
               THEN Err(403, "Not authorized to view this order")
               ELSE Ok(200, serialize_order(found[1], order))

get_order ==
    \E order_id \in OrderIdParams, tok \in Tokens :
        /\ resp' = Answer("get_order", [order_id |-> order_id, tok |-> tok],
                          get_order_result(order_id, tok))
        /\ UNCHANGED <<users, orders, now, products, tokens, inflight>>

track_order_result(order_number, email) ==
    LET found == FindByNumberAndEmail(order_number, Lower(email))
    IN IF found = None THEN Err(404, "Order not found")
       ELSE Ok(200, serialize_order(found[1], orders[found[1]]))

track_order ==
    \E order_number \in OrderNumbers \cup {<<"zz">>}, email \in TrackEmails :
        /\ resp' = Answer("track_order", [order_number |-> order_number, email |-> email],
                          track_order_result(order_number, email))
        /\ UNCHANGED <<users, orders, now, products, tokens, inflight>>

(***************************************************************************)
(* orders.py update_order (admin).  OrderUpdate is the request body;       *)
(* StatusUpdates are the bodies that set at most the status.               *)
(***************************************************************************)
OrderUpdate ==
    [ status : Optional(OrderStatus),
      payment_status : Optional(PaymentStatus),
      tracking_number : Optional(TrackingNumbers),
      notes : Optional(NoteTexts) ]

StatusUpdates ==
    { p \in OrderUpdate :
        p.payment_status = None /\ p.tracking_number = None /\ p.notes = None }

SnapshotUpdates ==
    { p \in OrderUpdate :
        /\ p.status \in Optional({"delivered", "cancelled"})
        /\ p.payment_status \in Optional({"refunded"}) }

\* Faulty variant: the tracking number and the notes are written even when
\* the patch leaves them null.
ApplyUpdateWithNulls(order, patch) ==
    [ order EXCEPT
        !.status = IF patch.status = None THEN @ ELSE patch.status[1],
        !.payment_status = IF patch.payment_status = None THEN @
                           ELSE patch.payment_status[1],
        !.tracking_number = patch.tracking_number,
        !.notes = patch.notes,
        !.updated_at = now ]

ApplyUpdate(order, patch) ==
    [ order EXCEPT
        !.status = IF patch.status = None THEN @ ELSE patch.status[1],
        !.payment_status = IF patch.payment_status = None THEN @
                           ELSE patch.payment_status[1],
        !.tracking_number = IF patch.tracking_number = None THEN @
                            ELSE patch.tracking_number,
        !.notes = IF patch.notes = None THEN @ ELSE patch.notes,
        !.updated_at = now ]

(***************************************************************************)
(* What update_order answers before it reads the request body: the         *)
(* rejection of get_admin_user or of ObjectId(order_id), else None.        *)
(***************************************************************************)
\* Faulty variant: a malformed order id is answered as an order not found.
update_order_gate_not_found(order_id, tok) ==
    LET auth == get_admin_user(tok)
    IN IF auth.code # 200 THEN Some(auth)
       ELSE IF ~IsObjectId(order_id) THEN Some(Err(404, "Order not found"))
       ELSE None

update_order_gate(order_id, tok) ==
    LET auth == get_admin_user(tok)
    IN IF auth.code # 200 THEN Some(auth)
       ELSE IF ~IsObjectId(order_id) THEN Some(Err(400, "Invalid order ID"))
       ELSE None

update_order_result(order_id, patch, tok) ==
    LET gate == update_order_gate(order_id, tok)
    IN IF gate # None THEN [res |-> gate[1], orders |-> orders]
       ELSE IF FindById(order_id[2]) = None
            THEN [res |-> Err(404, "Order not found"), orders |-> orders]
       ELSE LET k == order_id[2]
                updated == ApplyUpdate(orders[k], patch)
            IN [res |-> Ok(200, serialize_order(k, updated)),
                orders |-> [orders EXCEPT ![k] = updated]]

update_order(patches) ==
    \E order_id \in ObjectIdParams, tok \in Tokens :
        /\ IF update_order_gate(order_id, tok) # None
           THEN /\ orders' = orders
                /\ resp' = Answer("update_order", [order_id |-> order_id, tok |-> tok],
                                  update_order_gate(order_id, tok)[1])
           ELSE \E patch \in patches :
                    LET out == update_order_result(order_id, patch, tok)
                    IN /\ orders' = out.orders
                       /\ resp' = Answer("update_order",
                                         [order_id |-> order_id, tok |-> tok,
                                          order_data |-> patch], out.res)
        /\ UNCHANGED <<users, now, products, tokens, inflight>>

(***************************************************************************)
(* orders.py cancel_order.                                                 *)
(***************************************************************************)
\* Faulty variant: a processing order can still be cancelled.
CancellableWithProcessing == {"pending", "confirmed", "processing"}

\* Faulty variant: every order that is not yet cancelled can be cancelled.
CancellableUnlessCancelled == OrderStatus \ {"cancelled"}

Cancellable == {"pending", "confirmed"}

\* Faulty variant: anyone may cancel a guest order.
CancelAuthorizedOrGuest(order, caller) ==
    order.user_id = None \/ order.user_id = Some(caller) \/ users[caller].is_admin

\* Faulty variant: the user whose email is the order's contact email may
\* cancel it too.
CancelAuthorizedByEmail(order, caller) ==
    \/ order.user_id = Some(caller)
    \/ users[caller].is_admin
    \/ users[caller].email = Lower(order.email)

CancelAuthorized(order, caller) ==
    order.user_id = Some(caller) \/ users[caller].is_admin

\* Faulty variant: cancelling also zeroes the order's total.
CancelWriteZeroTotal(order) ==
    [order EXCEPT !.status = "cancelled", !.updated_at = now, !.total = 0]

\* Faulty variant: cancelling also marks the payment refunded.
CancelWriteRefunded(order) ==
    [order EXCEPT !.status = "cancelled", !.updated_at = now,
                  !.payment_status = "refunded"]

CancelWrite(order) == [order EXCEPT !.status = "cancelled", !.updated_at = now]

\* Faulty variant: updated_at is written before the status is tested.
cancel_order_result_stamp_first(order_id, tok) ==
    LET auth == get_current_active_user(tok)
    IN IF auth.code # 200 THEN [res |-> auth, orders |-> orders]
       ELSE IF ~IsObjectId(order_id)
            THEN [res |-> Err(400, "Invalid order ID"), orders |-> orders]
       ELSE IF FindById(order_id[2]) = None
            THEN [res |-> Err(404, "Order not found"), orders |-> orders]
       ELSE IF ~CancelAuthorized(orders[order_id[2]], auth.body[1])
            THEN [res |-> Err(403, "Not authorized"), orders |-> orders]
       ELSE IF orders[order_id[2]].status \notin Cancellable
            THEN [res |-> Err(400, "Cannot cancel order in current status"),
                  orders |-> [orders EXCEPT ![order_id[2]].updated_at = now]]
       ELSE LET k == order_id[2]
                updated == CancelWrite(orders[k])
            IN [res |-> Ok(200, serialize_order(k, updated)),
                orders |-> [orders EXCEPT ![k] = updated]]

cancel_order_result(order_id, tok) ==
    LET auth == get_current_active_user(tok)
    IN IF auth.code # 200 THEN [res |-> auth, orders |-> orders]
       ELSE IF ~IsObjectId(order_id)
            THEN [res |-> Err(400, "Invalid order ID"), orders |-> orders]
       ELSE IF FindById(order_id[2]) = None
            THEN [res |-> Err(404, "Order not found"), orders |-> orders]
       ELSE IF ~CancelAuthorized(orders[order_id[2]], auth.body[1])
            THEN [res |-> Err(403, "Not authorized"), orders |-> orders]
       ELSE IF orders[order_id[2]].status \notin Cancellable
            THEN [res |-> Err(400, "Cannot cancel order in current status"),
                  orders |-> orders]
       ELSE LET k == order_id[2]
                updated == CancelWrite(orders[k])
            IN [res |-> Ok(200, serialize_order(k, updated)),
                orders |-> [orders EXCEPT ![k] = updated]]

cancel_order ==
    \E order_id \in ObjectIdParams, tok \in Tokens :
        LET out == cancel_order_result(order_id, tok)
        IN /\ orders' = out.orders
           /\ resp' = Answer("cancel_order", [order_id |-> order_id, tok |-> tok], out.res)
           /\ UNCHANGED <<users, now, products, tokens, inflight>>

(***************************************************************************)
(* Concurrent handling of auth.py register and products.py create_product. *)
(* Each handler awaits find_one and then insert_one; between the two       *)
(* awaits other requests run.  The unique indexes of create_indexes make   *)
(* insert_one raise DuplicateKeyError when the email or the sku is already *)
(* stored; neither handler catches it, and the framework answers 500.      *)
(***************************************************************************)
Sku(i) == <<"sku", i>>
Skus == {Sku(i) : i \in 1..MaxProducts}

SkuTaken(sku) == \E k \in 1..Len(products) : products[k].sku = sku

register_find_one(user_datas) ==
    \E r \in Requests, user_data \in user_datas :
        /\ inflight[r] = Idle
        /\ IF EmailTaken(Lower(user_data.email))
           THEN /\ resp' = Answer("register", user_data,
                                  Err(400, "Email already registered"))
                /\ UNCHANGED inflight
           ELSE /\ inflight' = [inflight EXCEPT
                                   ![r] = [op |-> "register", user_data |-> user_data]]
                /\ UNCHANGED resp
        /\ UNCHANGED <<users, orders, products, tokens, now>>

register_insert_one(salts) ==
    \E r \in Requests :
        /\ inflight[r].op = "register"
        /\ LET user_data == inflight[r].user_data
           IN IF EmailTaken(Lower(user_data.email))
              THEN /\ resp' = Answer("register", user_data, Err(500, "DuplicateKeyError"))
                   /\ UNCHANGED users
              ELSE \E salt \in salts :
                       LET user_doc == UserDoc(Lower(user_data.email), user_data.first_name,
                                               user_data.last_name, user_data.phone,
                                               get_password_hash(user_data.password, salt),
                                               FALSE)
                       IN /\ Len(users) < MaxUsers
                          /\ users' = Append(users, user_doc)
                          /\ resp' = Answer("register", user_data,
                                            Ok(201, UserResponse(Len(users) + 1, user_doc)))
        /\ inflight' = [inflight EXCEPT ![r] = Idle]
        /\ UNCHANGED <<orders, products, tokens, now>>

create_product_find_one ==
    \E r \in Requests, tok \in Tokens :
        LET auth == get_admin_user(tok)
        IN /\ inflight[r] = Idle
           /\ IF auth.code # 200
              THEN /\ resp' = Answer("create_product", [tok |-> tok], auth)
                   /\ UNCHANGED inflight
              ELSE \E sku \in Skus :
                       IF SkuTaken(sku)
                       THEN /\ resp' = Answer("create_product", [tok |-> tok, sku |-> sku],
                                              Err(400, "SKU already exists"))
                            /\ UNCHANGED inflight
                       ELSE /\ inflight' = [inflight EXCEPT
                                               ![r] = [op |-> "create_product",
                                                       tok |-> tok, sku |-> sku]]
                            /\ UNCHANGED resp
           /\ UNCHANGED <<users, orders, products, tokens, now>>

create_product_insert_one ==
    \E r \in Requests :
        /\ inflight[r].op = "create_product"
        /\ LET req == [tok |-> inflight[r].tok, sku |-> inflight[r].sku]
           IN IF SkuTaken(req.sku)
              THEN /\ resp' = Answer("create_product", req, Err(500, "DuplicateKeyError"))
                   /\ UNCHANGED products
              ELSE /\ Len(products) < MaxProducts
                   /\ products' = Append(products, [sku |-> req.sku, created_at |-> now])
                   /\ resp' = Answer("create_product", req,
                                     Ok(201, [id |-> Len(products) + 1, sku |-> req.sku]))
        /\ inflight' = [inflight EXCEPT ![r] = Idle]
        /\ UNCHANGED <<users, orders, tokens, now>>

(***************************************************************************)
(* auth.py: the caller's own account.  update_current_user, toggle_wishlist *)
(* and change_password make one write; add_address makes two when the new  *)
(* address is the default one, and is modelled both as one step and split   *)
(* at its awaits.                                                           *)
(***************************************************************************)
Truthy(v) == v # None /\ v[1] # ""

UserUpdate(first_names) ==
    [first_name : first_names, last_name : {None}, phone : {None, Some("")}]

\* Faulty variant: the update also sets the admin flag.
ApplyUserUpdateAsAdmin(user, p) ==
    [user EXCEPT
       !.first_name = IF Truthy(p.first_name) THEN p.first_name[1] ELSE @,
       !.last_name = IF Truthy(p.last_name) THEN p.last_name[1] ELSE @,
       !.phone = IF Truthy(p.phone) THEN p.phone ELSE @,
       !.is_admin = TRUE]

ApplyUserUpdate(user, p) ==
    [user EXCEPT
       !.first_name = IF Truthy(p.first_name) THEN p.first_name[1] ELSE @,
       !.last_name = IF Truthy(p.last_name) THEN p.last_name[1] ELSE @,
       !.phone = IF Truthy(p.phone) THEN p.phone ELSE @]

update_current_user(first_names) ==
    \E tok \in Tokens :
        LET auth == get_current_active_user(tok)
        IN /\ IF auth.code # 200
              THEN /\ resp' = Answer("update_current_user", [tok |-> tok], auth)
                   /\ UNCHANGED users
              ELSE \E p \in UserUpdate(first_names) :
                       LET u == auth.body[1]
                       IN /\ users' = [users EXCEPT ![u] = ApplyUserUpdate(@, p)]
                          /\ resp' = Answer("update_current_user",
                                            [tok |-> tok, update |-> p],
                                            Ok(200, UserResponse(u, users'[u])))
           /\ UNCHANGED <<orders, products, tokens, inflight, now>>

Address(defaults) == [address : {"h"}, is_default : defaults]

UnsetDefaults(addresses) ==
    [i \in DOMAIN addresses |-> [addresses[i] EXCEPT !.is_default = FALSE]]

add_address(defaults) ==
    \E tok \in Tokens :
        LET auth == get_current_active_user(tok)
        IN /\ IF auth.code # 200
              THEN /\ resp' = Answer("add_address", [tok |-> tok], auth)
                   /\ UNCHANGED users
              ELSE \E address \in Address(defaults) :
                       LET u == auth.body[1]
                           kept == IF address.is_default
                                   THEN UnsetDefaults(users[u].addresses)
                                   ELSE users[u].addresses
                       IN /\ Len(users[u].addresses) < MaxAddresses
                          /\ users' = [users EXCEPT
                                          ![u].addresses = Append(kept, address)]
                          /\ resp' = Answer("add_address",
                                            [tok |-> tok, address |-> address],
                                            Ok(200, UserResponse(u, users'[u])))
           /\ UNCHANGED <<orders, products, tokens, inflight, now>>

\* The addresses that requests in flight for user u have still to push.
PendingAddresses(u) ==
    Cardinality({ r \in Requests : /\ inflight[r].op = "add_address"
                                   /\ inflight[r].current_user = u
                                   /\ inflight[r].pc # "find_one" })

add_address_get_current_active_user(defaults) ==
    \E r \in Requests, tok \in Tokens :
        LET auth == get_current_active_user(tok)
        IN /\ inflight[r] = Idle
           /\ IF auth.code # 200
              THEN /\ resp' = Answer("add_address", [tok |-> tok], auth)
                   /\ UNCHANGED inflight
              ELSE \E address \in Address(defaults) :
                       LET u == auth.body[1]
                       IN /\ Len(users[u].addresses) + PendingAddresses(u) < MaxAddresses
                          /\ inflight' = [inflight EXCEPT
                                             ![r] = [op |-> "add_address",
                                                     pc |-> IF address.is_default
                                                            THEN "unset" ELSE "push",
                                                     req |-> [tok |-> tok,
                                                              address |-> address],
                                                     current_user |-> u]]
                          /\ UNCHANGED resp
           /\ UNCHANGED <<users, orders, products, tokens, now>>

add_address_unset_defaults ==
    \E r \in Requests :
        /\ inflight[r].op = "add_address"
        /\ inflight[r].pc = "unset"
        /\ users' = [users EXCEPT ![inflight[r].current_user].addresses = UnsetDefaults(@)]
        /\ inflight' = [inflight EXCEPT ![r].pc = "push"]
        /\ UNCHANGED <<orders, products, tokens, now, resp>>

add_address_push ==
    \E r \in Requests :
        /\ inflight[r].op = "add_address"
        /\ inflight[r].pc = "push"
        /\ users' = [users EXCEPT ![inflight[r].current_user].addresses =
                                      Append(@, inflight[r].req.address)]
        /\ inflight' = [inflight EXCEPT ![r].pc = "find_one"]
        /\ UNCHANGED <<orders, products, tokens, now, resp>>

add_address_respond ==
    \E r \in Requests :
        /\ inflight[r].op = "add_address"
        /\ inflight[r].pc = "find_one"
        /\ LET u == inflight[r].current_user
           IN resp' = Answer("add_address", inflight[r].req,
                             Ok(200, UserResponse(u, users[u])))
        /\ inflight' = [inflight EXCEPT ![r] = Idle]
        /\ UNCHANGED <<users, orders, products, tokens, now>>

ProductIds == {"p1"}

InWishlist(user, product_id) == \E i \in DOMAIN user.wishlist : user.wishlist[i] = product_id

Pull(list, x) == SelectSeq(list, LAMBDA y : y # x)

toggle_wishlist ==
    \E tok \in Tokens :
        LET auth == get_current_active_user(tok)
        IN /\ IF auth.code # 200
              THEN /\ resp' = Answer("toggle_wishlist", [tok |-> tok], auth)
                   /\ UNCHANGED users
              ELSE \E product_id \in ProductIds :
                       LET u == auth.body[1]
                           req == [tok |-> tok, product_id |-> product_id]
                       IN IF InWishlist(users[u], product_id)
                          THEN /\ users' = [users EXCEPT
                                               ![u].wishlist = Pull(@, product_id)]
                               /\ resp' = Answer("toggle_wishlist", req,
                                                 Ok(200, [in_wishlist |-> FALSE]))
                          ELSE /\ users' = [users EXCEPT
                                               ![u].wishlist = Append(@, product_id)]
                               /\ resp' = Answer("toggle_wishlist", req,
                                                 Ok(200, [in_wishlist |-> TRUE]))
           /\ UNCHANGED <<orders, products, tokens, inflight, now>>

change_password(passwords, salts) ==
    \E tok \in Tokens :
        LET auth == get_current_active_user(tok)
        IN /\ IF auth.code # 200
              THEN /\ resp' = Answer("change_password", [tok |-> tok], auth)
                   /\ UNCHANGED users
              ELSE \E current_password \in passwords, new_password \in passwords :
                       LET u == auth.body[1]
                           req == [tok |-> tok, current_password |-> current_password,
                                   new_password |-> new_password]
                       IN IF ~verify_password(current_password, users[u].hashed_password)
                          THEN /\ resp' = Answer("change_password", req,
                                                 Err(400, "Incorrect current password"))
                               /\ UNCHANGED users
                          ELSE \E salt \in salts :
                                   /\ users' = [users EXCEPT ![u].hashed_password =
                                                   get_password_hash(new_password, salt)]
                                   /\ resp' = Answer("change_password", req,
                                                     Ok(200, "Password changed successfully"))
           /\ UNCHANGED <<orders, products, tokens, inflight, now>>

(***************************************************************************)
(* Concurrent handling of orders.py cancel_order and update_order.         *)
(* cancel_order awaits find_one, then update_one, then find_one again for  *)
(* the response; update_order awaits update_one and then find_one.  The    *)
(* filter of both update_one calls is the _id alone.                       *)
(***************************************************************************)
ShipUpdates ==
    { p \in OrderUpdate :
        /\ p.status \in {Some("shipped"), Some("delivered")}
        /\ p.payment_status = None
        /\ p.tracking_number = Some("t1")
        /\ p.notes = None }

cancel_order_find_one ==
    \E r \in Requests, order_id \in ObjectIdParams, tok \in Tokens :
        LET out == cancel_order_result(order_id, tok)
            req == [order_id |-> order_id, tok |-> tok]
        IN /\ inflight[r] = Idle
           /\ IF out.res.code # 200
              THEN /\ resp' = Answer("cancel_order", req, out.res)
                   /\ UNCHANGED inflight
              ELSE /\ inflight' = [inflight EXCEPT
                                      ![r] = [op |-> "cancel_order", pc |-> "update_one",
                                              req |-> req,
                                              status |-> orders[order_id[2]].status]]
                   /\ UNCHANGED resp
           /\ UNCHANGED <<users, orders, products, tokens, now>>

\* Faulty variant: the write is filtered on the status still being one that
\* can be cancelled.
cancel_order_update_one_if_cancellable ==
    \E r \in Requests :
        /\ inflight[r].op = "cancel_order"
        /\ inflight[r].pc = "update_one"
        /\ LET k == inflight[r].req.order_id[2]
           IN orders' = IF orders[k].status \in Cancellable
                        THEN [orders EXCEPT ![k] = CancelWrite(@)]
                        ELSE orders
        /\ inflight' = [inflight EXCEPT ![r].pc = "find_one"]
        /\ UNCHANGED <<users, products, tokens, now, resp>>

cancel_order_update_one ==
    \E r \in Requests :
        /\ inflight[r].op = "cancel_order"
        /\ inflight[r].pc = "update_one"
        /\ LET k == inflight[r].req.order_id[2]
           IN orders' = [orders EXCEPT ![k] = CancelWrite(@)]
        /\ inflight' = [inflight EXCEPT ![r].pc = "find_one"]
        /\ UNCHANGED <<users, products, tokens, now, resp>>

cancel_order_respond ==
    \E r \in Requests :
        /\ inflight[r].op = "cancel_order"
        /\ inflight[r].pc = "find_one"
        /\ LET k == inflight[r].req.order_id[2]
           IN resp' = Answer("cancel_order", inflight[r].req,
                             Ok(200, serialize_order(k, orders[k])))
        /\ inflight' = [inflight EXCEPT ![r] = Idle]
        /\ UNCHANGED <<users, orders, products, tokens, now>>

update_order_update_one(patches) ==
    \E r \in Requests, order_id \in ObjectIdParams, tok \in Tokens :
        /\ inflight[r] = Idle
        /\ IF update_order_gate(order_id, tok) # None
           THEN /\ resp' = Answer("update_order", [order_id |-> order_id, tok |-> tok],
                                  update_order_gate(order_id, tok)[1])
                /\ UNCHANGED <<orders, inflight>>
           ELSE \E patch \in patches :
                    LET req == [order_id |-> order_id, tok |-> tok, order_data |-> patch]
                    IN IF FindById(order_id[2]) = None
                       THEN /\ resp' = Answer("update_order", req,
                                              Err(404, "Order not found"))
                            /\ UNCHANGED <<orders, inflight>>
                       ELSE /\ orders' = [orders EXCEPT
                                             ![order_id[2]] = ApplyUpdate(@, patch)]
                            /\ inflight' = [inflight EXCEPT
                                               ![r] = [op |-> "update_order",
                                                       pc |-> "find_one", req |-> req]]
                            /\ UNCHANGED resp
        /\ UNCHANGED <<users, products, tokens, now>>

update_order_respond ==
    \E r \in Requests :
        /\ inflight[r].op = "update_order"
        /\ LET k == inflight[r].req.order_id[2]
           IN resp' = Answer("update_order", inflight[r].req,
                             Ok(200, serialize_order(k, orders[k])))
        /\ inflight' = [inflight EXCEPT ![r] = Idle]
        /\ UNCHANGED <<users, orders, products, tokens, now>>

(***************************************************************************)
(* orders.py get_order_stats: four queries, each awaited on its own, whose *)
(* results the handler keeps in locals until it answers.                   *)
(***************************************************************************)
CancelUpdates ==
    { p \in OrderUpdate :
        /\ p.status = Some("cancelled")
        /\ p.payment_status = None
        /\ p.tracking_number = None
        /\ p.notes = None }

\* count_documents with a filter on the status; the empty filter of the
\* handler's first query admits every status.
count_documents(statuses) ==
    Cardinality({ k \in OrderIds : orders[k].status \in statuses })

\* $group by status: one entry for each status that some order has.
GroupByStatus ==
    [ s \in { orders[k].status : k \in OrderIds } |->
        count_documents({s}) ]

\* Faulty variant: the revenue leaves cancelled orders out.
RECURSIVE SumPaidNotCancelled(_)
SumPaidNotCancelled(k) ==
    IF k > Len(orders) THEN 0
    ELSE (IF orders[k].payment_status = "paid" /\ orders[k].status # "cancelled"
          THEN orders[k].total ELSE 0) + SumPaidNotCancelled(k + 1)

RECURSIVE SumPaid(_)
SumPaid(k) ==
    IF k > Len(orders) THEN 0
    ELSE (IF orders[k].payment_status = "paid" THEN orders[k].total ELSE 0)
         + SumPaid(k + 1)

get_order_stats_total_orders ==
    \E r \in Requests, tok \in Tokens :
        LET auth == get_admin_user(tok)
        IN /\ inflight[r] = Idle
           /\ IF auth.code # 200
              THEN /\ resp' = Answer("get_order_stats", [tok |-> tok], auth)
                   /\ UNCHANGED inflight
              ELSE /\ inflight' = [inflight EXCEPT
                                      ![r] = [op |-> "get_order_stats",
                                              pc |-> "orders_by_status",
                                              req |-> [tok |-> tok],
                                              total_orders |->
                                                  count_documents(OrderStatus)]]
                   /\ UNCHANGED resp
           /\ UNCHANGED <<users, orders, products, tokens, now>>

get_order_stats_orders_by_status ==
    \E r \in Requests :
        /\ inflight[r].op = "get_order_stats"
        /\ inflight[r].pc = "orders_by_status"
        /\ inflight' = [inflight EXCEPT
                           ![r] = [op |-> "get_order_stats", pc |-> "total_revenue",
                                   req |-> inflight[r].req,
                                   total_orders |-> inflight[r].total_orders,
                                   orders_by_status |-> GroupByStatus]]
        /\ UNCHANGED <<users, orders, products, tokens, now, resp>>

get_order_stats_total_revenue ==
    \E r \in Requests :
        /\ inflight[r].op = "get_order_stats"
        /\ inflight[r].pc = "total_revenue"
        /\ inflight' = [inflight EXCEPT
                           ![r] = [op |-> "get_order_stats", pc |-> "pending_orders",
                                   req |-> inflight[r].req,
                                   total_orders |-> inflight[r].total_orders,
                                   orders_by_status |-> inflight[r].orders_by_status,
                                   total_revenue |-> SumPaid(1)]]
        /\ UNCHANGED <<users, orders, products, tokens, now, resp>>

get_order_stats_pending_orders ==
    \E r \in Requests :
        /\ inflight[r].op = "get_order_stats"
        /\ inflight[r].pc = "pending_orders"
        /\ resp' = Answer("get_order_stats", inflight[r].req,
                          Ok(200, [total_orders |-> inflight[r].total_orders,
                                   orders_by_status |-> inflight[r].orders_by_status,
                                   total_revenue |-> inflight[r].total_revenue,
                                   pending_orders |->
                                       count_documents({"pending"})]))
        /\ inflight' = [inflight EXCEPT ![r] = Idle]
        /\ UNCHANGED <<users, orders, products, tokens, now>>

(***************************************************************************)
(* Spec: accounts, access control and the order lifecycle.  Checkouts are  *)
(* FewCheckouts, admin updates set the status only, and the clock stands.  *)
(***************************************************************************)
Next ==
    \/ register(UserCreate(RegisterEmails, OnePassword), OneSalt)
    \/ seed_admin_user(OneSalt)
    \/ toggle_customer_status
    \/ create_order(FewCheckouts, OrderNumbers)
    \/ get_order
    \/ update_order(StatusUpdates)
    \/ cancel_order

Spec == Init /\ [][Next]_vars

(***************************************************************************)
(* SpecSnapshot: the stored order under admin updates of every field, with *)
(* the clock running; the only account is the admin, and orders are placed *)
(* by the admin or a guest.                                                *)
(***************************************************************************)
NextSnapshot ==
    \/ Tick
    \/ seed_admin_user(OneSalt)
    \/ create_order(SomeCheckouts, OrderNumbers)
    \/ update_order(SnapshotUpdates)
    \/ cancel_order

SpecSnapshot == Init /\ [][NextSnapshot]_vars

(***************************************************************************)
(* SpecCheckout: every checkout body, placed by a guest and then tracked.  *)
(***************************************************************************)
NextCheckout ==
    \/ create_order(AllCheckouts, OrderNumbers)
    \/ track_order

SpecCheckout == Init /\ [][NextCheckout]_vars

(***************************************************************************)
(* SpecConcurrent: registrations and product creations in flight together. *)
(***************************************************************************)
NextConcurrent ==
    \/ seed_admin_user(OneSalt)
    \/ register_find_one(UserCreate(RegisterEmails, OnePassword))
    \/ register_insert_one(OneSalt)
    \/ create_product_find_one
    \/ create_product_insert_one

SpecConcurrent == Init /\ [][NextConcurrent]_vars

(***************************************************************************)
(* SpecSession: customers log in and present their tokens while the clock  *)
(* runs past the tokens' expiry.                                           *)
(***************************************************************************)
NextSession ==
    \/ Advance(MaxClock)
    \/ register(UserCreate(RegisterEmails, OnePassword), OneSalt)
    \/ login(RegisterEmails, OnePassword \cup {<<"q">>})
    \/ get_current_user_info

SpecSession == Init /\ [][NextSession]_vars

(***************************************************************************)
(* SpecSessionCheckout: a customer logs in and checks out with the token,  *)
(* before and after it expires.                                            *)
(***************************************************************************)
NextSessionCheckout ==
    \/ Advance(MaxClock)
    \/ register(UserCreate(OrderEmails, OnePassword), OneSalt)
    \/ login(OrderEmails, OnePassword)
    \/ create_order(FewCheckouts, OrderNumbers)

SpecSessionCheckout == Init /\ [][NextSessionCheckout]_vars

(***************************************************************************)
(* SpecCollision: checkouts whose generated order number may be that of a  *)
(* stored order while another number is free, and lookups of the orders.   *)
(***************************************************************************)
NextCollision ==
    \/ create_order(FewCheckouts \cup SomeCheckouts, GeneratedNumbers)
    \/ get_order

SpecCollision == Init /\ [][NextCollision]_vars

(***************************************************************************)
(* SpecPassword: customers register with short and long passwords, hashed  *)
(* with any salt, and log in with any of the passwords.                    *)
(***************************************************************************)
NextPassword ==
    \/ register(UserCreate(RegisterEmails, Passwords), Salts)
    \/ login(RegisterEmails, Passwords)

SpecPassword == Init /\ [][NextPassword]_vars

(***************************************************************************)
(* SpecRace: a customer's cancellation and an admin's shipping update of   *)
(* the same order in flight together.                                      *)
(***************************************************************************)
NextRace ==
    \/ seed_admin_user(OneSalt)
    \/ register(UserCreate({<<"a", "x">>}, OnePassword), OneSalt)
    \/ create_order(FewCheckouts, OrderNumbers)
    \/ cancel_order_find_one
    \/ cancel_order_update_one
    \/ cancel_order_respond
    \/ update_order_update_one(ShipUpdates)
    \/ update_order_respond

SpecRace == Init /\ [][NextRace]_vars

(***************************************************************************)
(* SpecAddress: one customer adding addresses, two requests at a time.     *)
(***************************************************************************)
NextAddress ==
    \/ register(UserCreate({<<"a", "x">>}, OnePassword), OneSalt)
    \/ add_address_get_current_active_user(BOOLEAN)
    \/ add_address_unset_defaults
    \/ add_address_push
    \/ add_address_respond

SpecAddress == Init /\ [][NextAddress]_vars

(***************************************************************************)
(* SpecCredentials: a customer who logs in, then changes the password and  *)
(* the wishlist, with the clock running past the lifetime of the tokens.   *)
(***************************************************************************)
TwoPasswords == {<<"p">>, <<"q">>}

NextCredentials ==
    \/ Advance(MaxClock)
    \/ register(UserCreate({<<"a", "x">>}, OnePassword), OneSalt)
    \/ login({<<"a", "x">>}, TwoPasswords)
    \/ change_password(TwoPasswords, OneSalt)
    \/ toggle_wishlist
    \/ get_current_user_info

SpecCredentials == Init /\ [][NextCredentials]_vars

(***************************************************************************)
(* SpecStats: the admin's statistics read while orders are placed and      *)
(* updated.                                                                *)
(***************************************************************************)
NextStats ==
    \/ seed_admin_user(OneSalt)
    \/ create_order(SomeCheckouts, OrderNumbers)
    \/ update_order(CancelUpdates)
    \/ get_order_stats_total_orders
    \/ get_order_stats_orders_by_status
    \/ get_order_stats_total_revenue
    \/ get_order_stats_pending_orders

SpecStats == Init /\ [][NextStats]_vars

(***************************************************************************)
(* SpecView: two customers, one of whom places an order and one of whom    *)
(* logs in, reading the order while the clock runs past the token's        *)
(* lifetime.                                                               *)
(***************************************************************************)
NextView ==
    \/ Advance(MaxClock)
    \/ register(UserCreate({<<"a", "x">>, <<"b", "x">>}, OnePassword), OneSalt)
    \/ login({<<"b", "x">>}, OnePassword)
    \/ create_order(OneCheckout, OrderNumbers)
    \/ get_order

SpecView == Init /\ [][NextView]_vars

(***************************************************************************)
(* SpecAccount: the seeded admin and a customer, who may have registered   *)
(* the admin's email first, changing their accounts.                       *)
(***************************************************************************)
NextAccount ==
    \/ seed_admin_user(OneSalt)
    \/ register(UserCreate({<<"a", "x">>, <<"R", "x">>}, OnePassword), OneSalt)
    \/ update_current_user({Some("Z")})
    \/ add_address({TRUE})
    \/ toggle_wishlist
    \/ change_password(TwoPasswords, OneSalt)
    \/ toggle_customer_status

SpecAccount == Init /\ [][NextAccount]_vars

(***************************************************************************)
(* SpecActive: an admin disabling and enabling a customer who has an order *)
(* and keeps sending requests.                                             *)
(***************************************************************************)
NextActive ==
    \/ seed_admin_user(OneSalt)
    \/ register(UserCreate({<<"a", "x">>}, OnePassword), OneSalt)
    \/ create_order(OneCheckout, OrderNumbers)
    \/ toggle_customer_status
    \/ cancel_order
    \/ get_user_orders
    \/ get_current_user_info

SpecActive == Init /\ [][NextActive]_vars

(***************************************************************************)
(* SpecLogin: logins with known and unknown emails and right and wrong     *)
(* passwords, of a customer whom an admin disables and enables.            *)
(***************************************************************************)
NextLogin ==
    \/ Tick
    \/ seed_admin_user(OneSalt)
    \/ register(UserCreate({<<"a", "x">>}, OnePassword), OneSalt)
    \/ toggle_customer_status
    \/ login({<<"A", "x">>, <<"b", "x">>}, TwoPasswords)

SpecLogin == Init /\ [][NextLogin]_vars

(***************************************************************************)
(* SpecErrors: every order operation, on orders that exist or not, by      *)
(* callers entitled or not, with the clock running.                        *)
(***************************************************************************)
NextErrors ==
    \/ Tick
    \/ seed_admin_user(OneSalt)
    \/ register(UserCreate({<<"a", "x">>}, OnePassword), OneSalt)
    \/ create_order(OneCheckout, OrderNumbers)
    \/ get_order
    \/ track_order
    \/ update_order(ShipUpdates)
    \/ cancel_order

SpecErrors == Init /\ [][NextErrors]_vars

(***************************************************************************)
(* Properties.                                                             *)
(***************************************************************************)
\* Whether tok is a signed token whose subject is a stored user.
IsUserToken(tok) == tok[1] = "tok" /\ tok[2] \in UserIds

\* Whether the path parameter p names the stored order k, by id or by number.
Names(p, k) == p = Hex(k) \/ p = Str(orders[k].order_number)

\* Whether the response body b is the stored order k.
IsOrder(b, k) ==
    /\ b.id = k
    /\ b.order_number = orders[k].order_number
    /\ b.items = orders[k].items
    /\ b.email = orders[k].email
    /\ b.total = orders[k].total
    /\ b.status = orders[k].status
    /\ b.payment_status = orders[k].payment_status

RECURSIVE LineSum(_)
LineSum(items) ==
    IF items = <<>> THEN 0
    ELSE Head(items).price * Head(items).quantity + LineSum(Tail(items))

\* C1: cancelOrder by an active caller who owns the order or is an admin
\* succeeds and leaves the order cancelled when the order was pending or
\* confirmed, and fails with 400 "Cannot cancel order in current status",
\* changing nothing, when it was processing, shipped, delivered or cancelled.
C1_CancelByStatus ==
    [][ ( /\ resp'.op = "cancel_order"
          /\ IsUserToken(resp'.req.tok)
          /\ IsObjectId(resp'.req.order_id)
          /\ resp'.req.order_id[2] \in OrderIds )
        => LET u == resp'.req.tok[2]
               k == resp'.req.order_id[2]
           IN ( /\ users[u].is_active
                /\ orders[k].user_id = Some(u) \/ users[u].is_admin )
              => IF orders[k].status \in {"pending", "confirmed"}
                 THEN /\ resp'.res.code = 200
                      /\ resp'.res.body[1].status = "cancelled"
                      /\ orders'[k].status = "cancelled"
                 ELSE /\ resp'.res.code = 400
                      /\ resp'.res.detail = "Cannot cancel order in current status"
                      /\ orders' = orders ]_vars

\* A second cancel of an already cancelled order has been refused.
C1_Witness ==
    /\ resp.op = "cancel_order"
    /\ resp.res.code = 400
    /\ resp.res.detail = "Cannot cancel order in current status"
    /\ orders[resp.req.order_id[2]].status = "cancelled"

\* C2: getOrder of an owned order by a caller with a verifying token returns
\* the order when the caller is the owner or an admin, and 403 otherwise.
C2_GetOrderOwnership ==
    (resp.op = "get_order" /\ IsUserToken(resp.req.tok))
    => \A k \in OrderIds :
        (Names(resp.req.order_id, k) /\ orders[k].user_id # None)
        => IF orders[k].user_id = Some(resp.req.tok[2]) \/ users[resp.req.tok[2]].is_admin
           THEN resp.res.code = 200 /\ IsOrder(resp.res.body[1], k)
           ELSE resp.res.code = 403

\* A customer who is not the owner has been refused another customer's order.
C2_Witness ==
    /\ resp.op = "get_order"
    /\ resp.res.code = 403
    /\ IsUserToken(resp.req.tok)
    /\ ~users[resp.req.tok[2]].is_admin

\* C3: cancelOrder answers 401 without a verifying token and 400 "Inactive
\* user" for a disabled account; for an active caller and a well-formed id it
\* answers 404 when no order has the id, and 403 exactly when the caller is
\* neither the order's owner nor an admin, whatever the order's status.
C3_CancelGate ==
    resp.op = "cancel_order"
    => LET tok == resp.req.tok
           p == resp.req.order_id
       IN /\ tok \in {NoToken, BadToken} => resp.res.code = 401
          /\ IsUserToken(tok) /\ ~users[tok[2]].is_active
                => resp.res.code = 400 /\ resp.res.detail = "Inactive user"
          /\ IsUserToken(tok) /\ users[tok[2]].is_active /\ IsObjectId(p)
                => /\ p[2] \notin OrderIds => resp.res.code = 404
                   /\ p[2] \in OrderIds
                        => ( resp.res.code = 403
                             <=> ~( \/ orders[p[2]].user_id = Some(tok[2])
                                    \/ users[tok[2]].is_admin ) )

\* A non-owner has been refused the cancellation of a shipped order with 403.
C3_Witness ==
    /\ resp.op = "cancel_order"
    /\ resp.res.code = 403
    /\ orders[resp.req.order_id[2]].status = "shipped"

\* C4 as claimed: whenever an order becomes cancelled, it was pending or
\* confirmed immediately before.
C4_CancelledOnlyFromPendingOrConfirmed ==
    [][ \A k \in OrderIds :
          (orders'[k].status = "cancelled" /\ orders[k].status # "cancelled")
          => orders[k].status \in {"pending", "confirmed"} ]_vars

\* C4 amended: an order becomes cancelled from a status other than pending or
\* confirmed only by an admin updateOrder; cancelOrder and every other
\* operation move an order to cancelled only from pending or confirmed.
C4_CancelledElsewhereOnlyByAdminUpdate ==
    [][ \A k \in OrderIds :
          ( /\ orders'[k].status = "cancelled"
            /\ orders[k].status \notin {"pending", "confirmed", "cancelled"} )
          => resp'.op = "update_order" ]_vars

\* cancelOrder has moved an order to cancelled.
C4_Witness ==
    /\ resp.op = "cancel_order"
    /\ resp.res.code = 200
    /\ orders[resp.req.order_id[2]].status = "cancelled"

\* C5: every step leaves every stored order's items, shipping_address, email,
\* subtotal, shipping_cost, total, order_number and owner (and payment method,
\* shipping method and created_at) as they were.
Snapshot(order) ==
    [ items |-> order.items,
      shipping_address |-> order.shipping_address,
      email |-> order.email,
      subtotal |-> order.subtotal,
      shipping_cost |-> order.shipping_cost,
      total |-> order.total,
      order_number |-> order.order_number,
      user_id |-> order.user_id,
      payment_method |-> order.payment_method,
      shipping_method |-> order.shipping_method,
      created_at |-> order.created_at ]

C5_SnapshotImmutable ==
    [][ \A k \in OrderIds : Snapshot(orders'[k]) = Snapshot(orders[k]) ]_vars

\* An order whose four mutable fields and updated_at have all been changed.
C5_Witness ==
    \E k \in OrderIds :
        /\ orders[k].status = "cancelled"
        /\ orders[k].payment_status = "refunded"
        /\ orders[k].tracking_number # None
        /\ orders[k].notes # None
        /\ orders[k].updated_at > orders[k].created_at

\* C6: every stored order has total = subtotal + shipping_cost, subtotal the
\* sum of price * quantity over its items, and shipping_cost in {0, 1500, 3000}.
C6_TotalsInvariant ==
    \A k \in OrderIds :
        /\ orders[k].total = orders[k].subtotal + orders[k].shipping_cost
        /\ orders[k].subtotal = LineSum(orders[k].items)
        /\ orders[k].shipping_cost \in {0, 1500, 3000}

\* A stored order of several items that an admin update has changed.
C6_Witness ==
    \E k \in OrderIds :
        /\ Len(orders[k].items) > 1
        /\ orders[k].updated_at > orders[k].created_at
        /\ orders[k].payment_status = "refunded"

\* C7: the shipping cost of a created order is 3000 for the express method,
\* else 0 when the subtotal is at least 50000, else 1500.
C7_ShippingRule ==
    (resp.op = "create_order" /\ resp.res.code = 201)
    => LET data == resp.req.data
           body == resp.res.body[1]
           rule == IF data.shipping_method = "express" THEN 3000
                   ELSE IF LineSum(data.items) >= 50000 THEN 0
                   ELSE 1500
       IN /\ body.shipping_cost = rule
          /\ orders[body.id].shipping_cost = rule

\* An express order of 100000 has been created with shipping cost 3000.
C7_Witness ==
    /\ resp.op = "create_order"
    /\ resp.res.code = 201
    /\ resp.req.data.shipping_method = "express"
    /\ resp.res.body[1].subtotal = 100000
    /\ resp.res.body[1].shipping_cost = 3000

\* C8: an order created with payment method card is stored and returned as
\* paid and confirmed; with cod or bank, as pending and pending.
C8_PaymentAtCreation ==
    (resp.op = "create_order" /\ resp.res.code = 201)
    => LET data == resp.req.data
           body == resp.res.body[1]
           stored == orders[body.id]
       IN IF data.payment_method = "card"
          THEN /\ body.payment_status = "paid" /\ body.status = "confirmed"
               /\ stored.payment_status = "paid" /\ stored.status = "confirmed"
          ELSE /\ body.payment_status = "pending" /\ body.status = "pending"
               /\ stored.payment_status = "pending" /\ stored.status = "pending"

\* A card order has been created.
C8_Witness ==
    /\ resp.op = "create_order"
    /\ resp.res.code = 201
    /\ resp.req.data.payment_method = "card"
    /\ resp.res.body[1].payment_status = "paid"

\* C9: trackOrder returns an order exactly when an order has that order
\* number and an email equal to the supplied one up to letter case.
C9_TrackMatchesUpToCase ==
    resp.op = "track_order"
    => ( resp.res.code = 200
         <=> \E k \in OrderIds :
                /\ orders[k].order_number = resp.req.order_number
                /\ Lower(orders[k].email) = Lower(resp.req.email) )

\* C10: getOrder of a guest order by a caller with a verifying token returns
\* the order, admin or not.
C10_GuestOrderVisible ==
    (resp.op = "get_order" /\ IsUserToken(resp.req.tok))
    => \A k \in OrderIds :
        (Names(resp.req.order_id, k) /\ orders[k].user_id = None)
        => resp.res.code = 200 /\ IsOrder(resp.res.body[1], k)

\* A customer who is no admin has fetched a guest order.
C10_Witness ==
    /\ resp.op = "get_order"
    /\ resp.res.code = 200
    /\ IsUserToken(resp.req.tok)
    /\ ~users[resp.req.tok[2]].is_admin
    /\ orders[resp.res.body[1].id].user_id = None

\* C11: registering an email that is already registered (up to letter case)
\* and creating a product with an existing SKU fail with 400 and a message
\* naming the field, never with a generic error, however the requests in
\* flight interleave; no two users share an email and no two products a SKU.
C11_DuplicateFailsWith400 ==
    /\ resp.op = "register"
         => \/ resp.res.code = 201
            \/ resp.res.code = 400 /\ resp.res.detail = "Email already registered"
    /\ (resp.op = "create_product" /\ resp.res.code \notin {201, 401, 403})
         => resp.res.code = 400 /\ resp.res.detail = "SKU already exists"
    /\ \A u, v \in UserIds : Lower(users[u].email) = Lower(users[v].email) => u = v
    /\ \A j, k \in 1..Len(products) : products[j].sku = products[k].sku => j = k

\* C12 as claimed: a token issued at time t with lifetime ttl resolves to its
\* subject at every time before t + ttl and is rejected with 401 at every
\* time after t + ttl.
C12_TokenValidUntilExpiry ==
    resp.op = "get_current_user_info"
    => \A t \in tokens :
         t.access_token = resp.req.tok
         => /\ now < t.issued_at + TokenLifetime * TicksPerSecond
                 => resp.res.code = 200 /\ resp.res.body[1].id = t.sub
            /\ now > t.issued_at + TokenLifetime * TicksPerSecond
                 => resp.res.code = 401

\* C12 amended: the token resolves to its subject at every time before
\* t + ttl and is rejected with 401 at every time one second or more after
\* t + ttl.
C12_TokenValidUntilExpirySecond ==
    resp.op = "get_current_user_info"
    => \A t \in tokens :
         t.access_token = resp.req.tok
         => /\ now < t.issued_at + TokenLifetime * TicksPerSecond
                 => resp.res.code = 200 /\ resp.res.body[1].id = t.sub
            /\ now >= t.issued_at + (TokenLifetime + 1) * TicksPerSecond
                 => resp.res.code = 401

\* A token issued off the whole second has been rejected a second after its
\* lifetime ended, and not before.
C12_Witness ==
    /\ resp.op = "get_current_user_info"
    /\ resp.res.code = 401
    /\ \E t \in tokens :
         /\ t.access_token = resp.req.tok
         /\ t.issued_at % TicksPerSecond # 0
         /\ now = t.issued_at + (TokenLifetime + 1) * TicksPerSecond

\* C13: cancelOrder (a protected endpoint) and updateOrder (an admin
\* endpoint) answer 401 to a request without a token and 400 "Inactive user"
\* to a token of a disabled account, admin or not; updateOrder answers 403 to
\* the token of an active account without the admin flag.
C13_Gate ==
    resp.op \in {"cancel_order", "update_order"}
    => LET tok == resp.req.tok
       IN /\ tok = NoToken
               => resp.res.code = 401 /\ resp.res.detail = "Not authenticated"
          /\ (IsUserToken(tok) /\ ~users[tok[2]].is_active)
               => resp.res.code = 400 /\ resp.res.detail = "Inactive user"
          /\ ( /\ resp.op = "update_order"
               /\ IsUserToken(tok)
               /\ users[tok[2]].is_active
               /\ ~users[tok[2]].is_admin )
               => resp.res.code = 403 /\ resp.res.detail = "Not enough permissions"

\* A disabled admin has been refused an order update as an inactive user.
C13_Witness ==
    /\ resp.op = "update_order"
    /\ IsUserToken(resp.req.tok)
    /\ users[resp.req.tok[2]].is_admin
    /\ ~users[resp.req.tok[2]].is_active
    /\ resp.res.code = 400

\* C14: createOrder never answers with an authentication error; the order it
\* stores is owned by the token's subject when the token is signed, within
\* its lifetime and names a stored user, and is a guest order (owner null)
\* when there is no token or the token is malformed, expired by a second or
\* more, or names no stored user.
C14_CreateOrderOwner ==
    resp.op = "create_order"
    => /\ resp.res.code \in {201, 500}
       /\ resp.res.code = 201
            => LET tok == resp.req.tok
                   owner == orders[resp.res.body[1].id].user_id
                   lifetime == TokenLifetime * TicksPerSecond
               IN /\ (\E u \in UserIds : tok = Tok(u)) => owner = Some(tok[2])
                  /\ \A t \in tokens :
                       (t.access_token = tok /\ now < t.issued_at + lifetime)
                       => owner = Some(t.sub)
                  /\ tok \in {NoToken, BadToken, Tok(MaxUsers + 1)} => owner = None
                  /\ ( /\ \E t \in tokens : t.access_token = tok
                       /\ \A t \in tokens :
                            t.access_token = tok
                            => now >= t.issued_at + lifetime + TicksPerSecond )
                       => owner = None

\* An order placed with an expired token has been stored as a guest order.
C14_Witness ==
    /\ resp.op = "create_order"
    /\ resp.res.code = 201
    /\ \E t \in tokens :
         /\ t.access_token = resp.req.tok
         /\ now >= t.issued_at + (TokenLifetime + 1) * TicksPerSecond
    /\ orders[resp.res.body[1].id].user_id = None

\* C15: createOrder with an empty item list is answered with a caller error
\* (a 4xx status) and no stored order has an empty item list.
C15_EmptyItemsRejected ==
    /\ (resp.op = "create_order" /\ resp.req.data.items = <<>>)
         => resp.res.code \in 400..499
    /\ \A k \in OrderIds : orders[k].items # <<>>

\* C16: createOrder surfaces a creation error only when the order number of
\* the retried insert collides too.  The answer does not depend on what a
\* second call of the generator returns, so whenever createOrder answers with
\* an error every order number the generator can return is taken.  No two
\* stored orders share an order number.
C16_RetryOnCollision ==
    /\ (resp.op = "create_order" /\ resp.res.code # 201)
         => \A n \in GeneratedNumbers : FindByNumber(n) # None
    /\ \A j, k \in OrderIds : orders[j].order_number = orders[k].order_number => j = k

\* Whether the caller of the last request passed get_current_active_user,
\* and get_admin_user where the endpoint is updateOrder.
PassedGate ==
    /\ IsUserToken(resp.req.tok)
    /\ users[resp.req.tok[2]].is_active
    /\ resp.op = "update_order" => users[resp.req.tok[2]].is_admin

\* C17 as claimed: cancelOrder and updateOrder with a malformed order id fail
\* with 404; getOrder with a malformed id looks the order up by order number
\* and fails with 404 when no order has that number.
C17_MalformedIdNotFound ==
    /\ ( /\ resp.op \in {"cancel_order", "update_order"}
         /\ ~IsObjectId(resp.req.order_id)
         /\ PassedGate )
         => resp.res.code = 404
    /\ (resp.op = "get_order" /\ ~IsObjectId(resp.req.order_id))
         => IF \E k \in OrderIds : orders[k].order_number = resp.req.order_id[2]
            THEN resp.res.code \in {200, 403}
            ELSE resp.res.code = 404

\* C17 amended: cancelOrder and updateOrder with a malformed order id fail
\* with 400 "Invalid order ID" once the caller has passed the gate; getOrder
\* is as claimed.
C17_MalformedIdInvalid ==
    /\ ( /\ resp.op \in {"cancel_order", "update_order"}
         /\ ~IsObjectId(resp.req.order_id)
         /\ PassedGate )
         => resp.res.code = 400 /\ resp.res.detail = "Invalid order ID"
    /\ (resp.op = "get_order" /\ ~IsObjectId(resp.req.order_id))
         => IF \E k \in OrderIds : orders[k].order_number = resp.req.order_id[2]
            THEN resp.res.code \in {200, 403}
            ELSE resp.res.code = 404

\* An admin's update of a malformed order id has been refused as invalid
\* while an order was stored.
C17_Witness ==
    /\ resp.op = "update_order"
    /\ ~IsObjectId(resp.req.order_id)
    /\ resp.res.code = 400
    /\ resp.res.detail = "Invalid order ID"
    /\ orders # <<>>

\* C18: a login that follows a registration of the same email succeeds
\* exactly when it supplies the registered password (verify(q, hash(p)) is
\* true for q = p and false for every other q), and two stored hashes made
\* with different salts differ.
C18_PasswordRoundTrip ==
    [][ /\ ( /\ resp.op = "register"
             /\ resp.res.code = 201
             /\ resp'.op = "login"
             /\ Lower(resp'.req.username) = Lower(resp.req.email) )
             => ( resp'.res.code = 200 <=> resp'.req.password = resp.req.password )
        /\ \A u, v \in UserIds :
             users[u].hashed_password.salt # users[v].hashed_password.salt
             => users[u].hashed_password # users[v].hashed_password ]_vars

\* C19: a successful cancelOrder sets the order's status to cancelled and its
\* updated_at to the time of the request, and leaves its payment_status,
\* tracking_number, notes, owner and snapshot, and every other order, as
\* they were.
C19_CancelFrame ==
    [][ (resp'.op = "cancel_order" /\ resp'.res.code = 200)
        => LET k == resp'.req.order_id[2]
           IN /\ orders'[k].status = "cancelled"
              /\ orders'[k].updated_at = now
              /\ orders'[k].payment_status = orders[k].payment_status
              /\ orders'[k].tracking_number = orders[k].tracking_number
              /\ orders'[k].notes = orders[k].notes
              /\ orders'[k].user_id = orders[k].user_id
              /\ Snapshot(orders'[k]) = Snapshot(orders[k])
              /\ Len(orders') = Len(orders)
              /\ \A j \in OrderIds \ {k} : orders'[j] = orders[j] ]_vars

\* A card order has been cancelled after it was placed and is still paid.
C19_Witness ==
    /\ resp.op = "cancel_order"
    /\ resp.res.code = 200
    /\ LET order == orders[resp.req.order_id[2]]
       IN /\ order.payment_method = "card"
          /\ order.payment_status = "paid"
          /\ order.status = "cancelled"
          /\ order.updated_at > order.created_at

\* C20: an updateOrder by an active admin with a well-formed id succeeds on a
\* stored order whatever its status and the patch: it sets each of status,
\* payment_status, tracking_number and notes to the patch's value where that
\* is not null and leaves it as it was where it is null, sets updated_at to
\* the time of the request, and changes nothing else; on a missing order it
\* answers 404 and changes nothing.
C20_UpdateFrame ==
    [][ ( /\ resp'.op = "update_order"
          /\ IsUserToken(resp'.req.tok)
          /\ users[resp'.req.tok[2]].is_active
          /\ users[resp'.req.tok[2]].is_admin
          /\ IsObjectId(resp'.req.order_id) )
        => LET k == resp'.req.order_id[2]
               patch == resp'.req.order_data
           IN IF k \in OrderIds
              THEN /\ resp'.res.code = 200
                   /\ orders'[k].status =
                        IF patch.status = None THEN orders[k].status
                        ELSE patch.status[1]
                   /\ orders'[k].payment_status =
                        IF patch.payment_status = None THEN orders[k].payment_status
                        ELSE patch.payment_status[1]
                   /\ orders'[k].tracking_number =
                        IF patch.tracking_number = None THEN orders[k].tracking_number
                        ELSE patch.tracking_number
                   /\ orders'[k].notes =
                        IF patch.notes = None THEN orders[k].notes ELSE patch.notes
                   /\ orders'[k].updated_at = now
                   /\ Snapshot(orders'[k]) = Snapshot(orders[k])
                   /\ Len(orders') = Len(orders)
                   /\ \A j \in OrderIds \ {k} : orders'[j] = orders[j]
              ELSE /\ resp'.res.code = 404
                   /\ orders' = orders ]_vars

\* A later update has moved an order to delivered with a patch whose other
\* fields are null, and the order has kept its refund, tracking number and
\* notes.
C20_Witness ==
    /\ resp.op = "update_order"
    /\ resp.res.code = 200
    /\ resp.req.order_data = [status |-> Some("delivered"), payment_status |-> None,
                              tracking_number |-> None, notes |-> None]
    /\ LET order == orders[resp.req.order_id[2]]
       IN /\ order.status = "delivered"
          /\ order.payment_status = "refunded"
          /\ order.tracking_number # None
          /\ order.notes # None
          /\ order.updated_at > order.created_at

\* C21: nothing excludes an admin updateOrder between the read and the write
\* of a cancelOrder.  The write of a cancelOrder that has read pending or
\* confirmed leaves the order cancelled whatever its status has become, and
\* the cancelOrder then answers 200, as does an updateOrder that has written.
C21_StaleCancelOverwrites ==
    [][ \A r \in Requests :
          /\ ( /\ inflight[r].op = "cancel_order"
               /\ inflight[r].pc = "update_one"
               /\ inflight'[r] # inflight[r] )
               => /\ inflight[r].status \in {"pending", "confirmed"}
                  /\ orders'[inflight[r].req.order_id[2]].status = "cancelled"
                  /\ inflight'[r].pc = "find_one"
          /\ ( /\ inflight[r].op \in {"cancel_order", "update_order"}
               /\ inflight[r].pc = "find_one"
               /\ inflight'[r] # inflight[r] )
               => /\ resp'.op = inflight[r].op
                  /\ resp'.res.code = 200 ]_vars

\* A customer's cancelOrder has answered 200 and left cancelled an order
\* that an admin had shipped with a tracking number: the cancellation read
\* the order before the update and wrote after it.
C21_Witness ==
    /\ resp.op = "cancel_order"
    /\ resp.res.code = 200
    /\ ~users[resp.req.tok[2]].is_admin
    /\ LET order == orders[resp.req.order_id[2]]
       IN /\ order.status = "cancelled"
          /\ order.tracking_number = Some("t1")

\* C22 as claimed: every user's address list has at most one address marked
\* default, whatever the interleaving of the add-address requests.
C22_AtMostOneDefault ==
    \A u \in UserIds :
        Cardinality({ i \in DOMAIN users[u].addresses :
                        users[u].addresses[i].is_default }) <= 1

\* C23: a token that login has issued resolves to the user that logged in
\* at every moment up to the second of its exp claim, whatever password and
\* wishlist changes the account has seen since; the account being active,
\* the request passes get_current_active_user.
C23_ExpiryOnly ==
    \A t \in tokens :
        Seconds(now) <= t.access_token[3]
        => /\ get_current_user(t.access_token) = Ok(200, Some(t.sub))
           /\ users[t.sub].is_active
                => get_current_active_user(t.access_token) = Ok(200, t.sub)

\* The user has changed the password with a token that login issued under
\* the old password; the token is within its lifetime and still resolves.
C23_Witness ==
    /\ resp.op = "change_password"
    /\ resp.res.code = 200
    /\ resp.req.new_password # resp.req.current_password
    /\ \E t \in tokens :
          /\ t.access_token = resp.req.tok
          /\ Seconds(now) <= t.access_token[3]
          /\ ~verify_password(resp.req.current_password, users[t.sub].hashed_password)
          /\ get_current_active_user(t.access_token) = Ok(200, t.sub)

\* The sum of the counts of a per-status table.
RECURSIVE SumCounts(_)
SumCounts(table) ==
    IF DOMAIN table = {} THEN 0
    ELSE LET s == CHOOSE x \in DOMAIN table : TRUE
         IN table[s] + SumCounts([x \in DOMAIN table \ {s} |-> table[x]])

\* The count a per-status table gives for status s.
CountOf(table, s) == IF s \in DOMAIN table THEN table[s] ELSE 0

\* The orders with status s.
WithStatus(s) == { k \in OrderIds : orders[k].status = s }

\* The paid orders, cancelled ones included.
Paid == { k \in OrderIds : orders[k].payment_status = "paid" }

RECURSIVE Revenue(_)
Revenue(ks) ==
    IF ks = {} THEN 0
    ELSE LET k == CHOOSE x \in ks : TRUE IN orders[k].total + Revenue(ks \ {k})

\* C24 as claimed: the four figures of an orderStats answer describe one
\* state of the store: the per-status counts sum to total_orders and
\* pending_orders is the count given for status pending.
C24_StatsOneState ==
    (resp.op = "get_order_stats" /\ resp.res.code = 200)
    => LET stats == resp.res.body[1]
       IN /\ SumCounts(stats.orders_by_status) = stats.total_orders
          /\ stats.pending_orders = CountOf(stats.orders_by_status, "pending")

\* C24: each figure of orderStats is exact for the store at the moment of
\* its own query: total_orders is the number of stored orders,
\* orders_by_status has an entry for each status that some order has and
\* counts the orders with it, total_revenue is the sum of total over the paid
\* orders, cancelled ones included, and 0 without any, and pending_orders is
\* the number of pending orders when the request answers.  Orders being
\* only ever added, total_orders is at most the sum of the per-status
\* counts.
C24_StatsPerQuery ==
    [][ \A r \in Requests :
          /\ (inflight[r] = Idle /\ inflight'[r] # Idle /\ inflight'[r].op = "get_order_stats")
               => inflight'[r].total_orders = Len(orders)
          /\ (inflight[r].op = "get_order_stats" /\ inflight'[r] # inflight[r])
               => /\ inflight[r].pc = "orders_by_status"
                       => /\ DOMAIN inflight'[r].orders_by_status
                               = { s \in OrderStatus : WithStatus(s) # {} }
                          /\ \A s \in DOMAIN inflight'[r].orders_by_status :
                                inflight'[r].orders_by_status[s]
                                  = Cardinality(WithStatus(s))
                          /\ inflight[r].total_orders
                               <= SumCounts(inflight'[r].orders_by_status)
                  /\ inflight[r].pc = "total_revenue"
                       => inflight'[r].total_revenue = Revenue(Paid)
                  /\ inflight[r].pc = "pending_orders"
                       => /\ resp'.op = "get_order_stats"
                          /\ resp'.res.code = 200
                          /\ resp'.res.body[1]
                               = [total_orders |-> inflight[r].total_orders,
                                  orders_by_status |-> inflight[r].orders_by_status,
                                  total_revenue |-> inflight[r].total_revenue,
                                  pending_orders |-> Cardinality(WithStatus("pending"))] ]_vars

\* An orderStats answer counts no order in total_orders and one under a
\* status, and its revenue holds a paid order: an order was placed between
\* its first and its second query.
C24_Witness ==
    /\ resp.op = "get_order_stats"
    /\ resp.res.code = 200
    /\ resp.res.body[1].total_orders = 0
    /\ SumCounts(resp.res.body[1].orders_by_status) = 1
    /\ resp.res.body[1].total_revenue > 0

\* C25: getOrder without a token, or with a token that is malformed, past
\* the second of its exp claim or of a subject that is no stored user,
\* returns the order that the path parameter names by id or by order number,
\* owned or not.
C25_GuestReadsOwnedOrder ==
    [][ ( /\ resp'.op = "get_order"
          /\ now' = now
          /\ LET tok == resp'.req.tok
             IN \/ tok \in {NoToken, BadToken}
                \/ tok[3] < Seconds(now)
                \/ tok[2] \notin UserIds )
        => \A k \in OrderIds :
              Names(resp'.req.order_id, k)
              => /\ resp'.res.code = 200
                 /\ IsOrder(resp'.res.body[1], k) ]_vars

\* A customer's order has been returned to a request bearing the expired
\* token of another customer, who is not an admin.
C25_Witness ==
    /\ resp.op = "get_order"
    /\ resp.res.code = 200
    /\ \E t \in tokens :
          /\ t.access_token = resp.req.tok
          /\ t.access_token[3] < Seconds(now)
          /\ ~users[t.sub].is_admin
          /\ \E k \in OrderIds :
                /\ IsOrder(resp.res.body[1], k)
                /\ orders[k].user_id # None
                /\ orders[k].user_id # Some(t.sub)

C27_ActiveFlagReRead ==
    [][ ( /\ resp'.op \in {"cancel_order", "get_user_orders", "get_current_user_info"}
          /\ IsUserToken(resp'.req.tok) )
        => LET u == resp'.req.tok[2]
           IN /\ ~users[u].is_active
                   => /\ resp'.res = Err(400, "Inactive user")
                      /\ UNCHANGED <<users, orders>>
              /\ users[u].is_active
                   => /\ resp'.res.detail # "Inactive user"
                      /\ resp'.op = "get_current_user_info"
                           => resp'.res.code = 200 /\ resp'.res.body[1].id = u
                      /\ resp'.op = "get_user_orders"
                           => /\ resp'.res.code = 200
                              /\ resp'.res.body[1].total = Cardinality(OrdersOf(u)) ]_vars

\* A disabled customer has been refused the cancellation of their own
\* pending order, which is still pending.
C27_Witness ==
    /\ resp.op = "cancel_order"
    /\ resp.res = Err(400, "Inactive user")
    /\ IsUserToken(resp.req.tok)
    /\ ~users[resp.req.tok[2]].is_admin
    /\ ~users[resp.req.tok[2]].is_active
    /\ \E k \in OrderIds :
          /\ resp.req.order_id = Hex(k)
          /\ orders[k].user_id = Some(resp.req.tok[2])
          /\ orders[k].status = "pending"

\* C28: login answers 401 "Incorrect email or password" when no user has
\* the case-folded email and when the password does not verify against that
\* user's hash, active or not; 400 "Account is disabled" when the password
\* verifies and the account is disabled; and otherwise 200 with a bearer
\* token whose subject is that user's id and whose exp claim is the whole
\* second of the time of issue plus the lifetime.
C28_LoginConditions ==
    [][ (resp'.op = "login" /\ now' = now)
        => LET email == Lower(resp'.req.username)
               match == { u \in UserIds : users[u].email = email }
               verified == { u \in match :
                               verify_password(resp'.req.password,
                                               users[u].hashed_password) }
           IN /\ verified = {}
                   => resp'.res = Err(401, "Incorrect email or password")
              /\ \A u \in verified :
                    /\ ~users[u].is_active
                         => resp'.res = Err(400, "Account is disabled")
                    /\ users[u].is_active
                         => /\ resp'.res.code = 200
                            /\ resp'.res.body[1].token_type = "bearer"
                            /\ resp'.res.body[1].access_token
                                 = Jwt(u, Seconds(now + TokenLifetime * TicksPerSecond)) ]_vars

\* A login with the email in another letter case has been given a token of
\* the registered customer.
C28_Witness ==
    /\ resp.op = "login"
    /\ resp.res.code = 200
    /\ resp.req.username = <<"A", "x">>
    /\ \E u \in UserIds :
          /\ users[u].email = <<"a", "x">>
          /\ resp.res.body[1].access_token[2] = u

\* C29: a cancelOrder, updateOrder, getOrder or trackOrder that answers with
\* an error leaves every stored order, updated_at included, as it was.
C29_ErrorsChangeNothing ==
    [][ ( /\ resp'.op \in {"cancel_order", "update_order", "get_order", "track_order"}
          /\ resp'.res.code # 200 )
        => orders' = orders ]_vars

\* The cancellation of a shipped order has been refused for its status, at a
\* later time than the order's last update.
C29_Witness ==
    /\ resp.op = "cancel_order"
    /\ resp.res = Err(400, "Cannot cancel order in current status")
    /\ \E k \in OrderIds :
          /\ resp.req.order_id = Hex(k)
          /\ orders[k].status \in {"shipped", "delivered"}
          /\ orders[k].updated_at < now

\* C30: cancelOrder of a guest order by an active caller without the admin
\* flag answers 403 and changes no order, whoever the caller is; by an
\* active admin it succeeds exactly when the order is pending or confirmed;
\* and getOrder returns a guest order to every caller.
C30_GuestOrderAdminOnly ==
    [][ \A k \in OrderIds :
          orders[k].user_id = None
          => /\ ( /\ resp'.op = "cancel_order"
                  /\ resp'.req.order_id = Hex(k)
                  /\ IsUserToken(resp'.req.tok)
                  /\ users[resp'.req.tok[2]].is_active )
                  => IF users[resp'.req.tok[2]].is_admin
                     THEN resp'.res.code = 200
                            <=> orders[k].status \in {"pending", "confirmed"}
                     ELSE /\ resp'.res = Err(403, "Not authorized")
                          /\ orders' = orders
             /\ (resp'.op = "get_order" /\ Names(resp'.req.order_id, k))
                  => resp'.res.code = 200 /\ IsOrder(resp'.res.body[1], k) ]_vars

\* An active customer has been refused the cancellation of a pending guest
\* order whose contact email is their own.
C30_Witness ==
    /\ resp.op = "cancel_order"
    /\ resp.res = Err(403, "Not authorized")
    /\ IsUserToken(resp.req.tok)
    /\ users[resp.req.tok[2]].is_active
    /\ \E k \in OrderIds :
          /\ resp.req.order_id = Hex(k)
          /\ orders[k].user_id = None
          /\ orders[k].status = "pending"
          /\ Lower(orders[k].email) = users[resp.req.tok[2]].email
=============================================================================
